---- MODULE Spec2Model ----
(***************************************************************************)
(* Model of src/src/App.tsx: the vote tally computeResults with its random *)
(* discard of one ballot and the Gerente's random bonus, the lookup        *)
(* findGerenteId it uses, the voting boards that feed it, and the          *)
(* scheduling of the awarded days: isValidSchedule, getScheduleStatus,     *)
(* toggleDay and validateSchedule.                                         *)
(*                                                                         *)
(* Identities are the strings "u1", "u2", ... of the roster; the model     *)
(* writes the number n for "u<n>".  None of them is an array index, so a   *)
(* JavaScript object keyed by them lists its keys in insertion order.      *)
(* Undefined (and the null of gerenteIdResolved) is written 0.  Arrays are *)
(* sequences, so the JavaScript index i is position i + 1 here.            *)
(***************************************************************************)
EXTENDS Integers, Sequences, FiniteSets, TLC

\* Program constants.
MaxPicks == 3
TopN == 3
BonusMin == 1
BonusMax == 3
OneDayVoters == 2
FullAwardVoters == 3

\* Bounds of the model.
NumCands == 4
MaxTotalPicks == 4
MaxCalls == 2
MaxDays == 3
NumDates == 5
MaxErrLen == 2

\* As many voters as the last rows of the day table ask for.
NumVoters == FullAwardVoters

Undefined == 0

Cands == 1 .. NumCands
\* The id of voter i: the voters follow the candidates, as u11.. follow u1..u10.
VoterId(i) == NumCands + i

VARIABLES users, votes, options, GERENTE_CACHE, pc, calls,
          gerenteId, idx, draws, results,
          days, verdict,
          selectedDays, targetDays, error, status,
          boards,
          scheduleByCandidate, scheduleErrors

\* The arguments and the result of a call of isValidSchedule.
validVars == <<days, verdict>>

\* The arguments and the result of a call of getScheduleStatus.
statusVars == <<selectedDays, error, status>>

\* The voting boards.
boardVars == <<boards>>

\* The scheduling state of the App.
schedVars == <<scheduleByCandidate, scheduleErrors>>

\* What computeResults reads and writes.
tallyVars == <<options, GERENTE_CACHE, calls, gerenteId, idx, draws, results>>

vars == <<users, votes, options, GERENTE_CACHE, pc, calls,
          gerenteId, idx, draws, results,
          validVars, statusVars, targetDays, boardVars, schedVars>>

----------------------------------------------------------------------------
\* Helpers on sequences.

Min(a, b) == IF a <= b THEN a ELSE b

Range(s) == {s[i] : i \in 1 .. Len(s)}

SeqsUpTo(S, n) == UNION {[1 .. k -> S] : k \in 0 .. n}

\* Array.prototype.filter on the index: the elements whose position satisfies keep.
RECURSIVE FilterIdx(_, _, _)
FilterIdx(s, drop, i) ==
    IF i > Len(s) THEN <<>>
    ELSE (IF i # drop THEN <<s[i]>> ELSE <<>>) \o FilterIdx(s, drop, i + 1)

----------------------------------------------------------------------------
\* randomInt(min, max): min + (array[0] % (max - min + 1)), any value of min..max.
randomInt(min, max) == min .. max

----------------------------------------------------------------------------
\* findGerenteId

\* users.find((u) => u.role === "Gerente" || u.title === "CIO")?.id
RECURSIVE FindFrom(_, _)
FindFrom(us, i) ==
    IF i > Len(us) THEN Undefined
    ELSE IF us[i].role = "Gerente" \/ us[i].title = "CIO" THEN us[i].id
    ELSE FindFrom(us, i + 1)

\* The lookup through GERENTE_CACHE, a Map keyed by the roster array.  The model
\* holds one roster array, so the Map has that key or none.
findGerenteId(us, cache) ==
    IF cache.has THEN cache.val ELSE FindFrom(us, 1)

CacheAfter(us, cache) ==
    IF cache.has THEN cache ELSE [has |-> TRUE, val |-> FindFrom(us, 1)]

----------------------------------------------------------------------------
\* computeResults

\* Variant: the discard ignores its option.
DiscardChoicesAlways(vs, opts) ==
    IF Len(vs) > 0
    THEN {k + 1 : k \in randomInt(0, Len(vs) - 1)}
    ELSE {0}

\* if (options.discardOneRandomVote && votes.length > 0) idx = randomInt(0, votes.length - 1)
\* The position drawn, or 0 when nothing is discarded.
DiscardChoices(vs, opts) ==
    IF opts.discardOneRandomVote /\ Len(vs) > 0
    THEN {k + 1 : k \in randomInt(0, Len(vs) - 1)}
    ELSE {0}

\* Variant: the voter reported is the first one, not the one drawn.
DiscardedVoterIdFirst(vs, i) == IF i = 0 THEN Undefined ELSE vs[1].voterId

\* discardedVoterId = votes[idx].voterId
DiscardedVoterId(vs, i) == IF i = 0 THEN Undefined ELSE vs[i].voterId

\* Variant: the ballot drawn is reported but still counted.
UsedVotesKeepAll(vs, i) == vs

\* usedVotes = votes.filter((_, i) => i !== idx)
UsedVotes(vs, i) == IF i = 0 THEN vs ELSE FilterIdx(vs, i, 1)

\* counts[cid] = (counts[cid] || 0) + 1, on a record that lists its keys in
\* insertion order: a sequence of (candidateId, votes) in the order of first insertion.
Incr(counts, cid) ==
    IF \E k \in 1 .. Len(counts) : counts[k].candidateId = cid
    THEN [k \in 1 .. Len(counts) |->
            IF counts[k].candidateId = cid
            THEN [counts[k] EXCEPT !.votes = @ + 1]
            ELSE counts[k]]
    ELSE Append(counts, [candidateId |-> cid, votes |-> 1])

\* Variant: a candidate named twice on a ballot is counted once.
RECURSIVE TallyPicksDistinct(_, _, _)
TallyPicksDistinct(counts, picks, k) ==
    IF k > Len(picks) THEN counts
    ELSE TallyPicksDistinct(
             IF \E h \in 1 .. (k - 1) : picks[h] = picks[k]
             THEN counts ELSE Incr(counts, picks[k]),
             picks, k + 1)

\* v.picks.forEach((cid) => ...)
RECURSIVE TallyPicks(_, _, _)
TallyPicks(counts, picks, k) ==
    IF k > Len(picks) THEN counts
    ELSE TallyPicks(Incr(counts, picks[k]), picks, k + 1)

\* usedVotes.forEach((v) => ...)
RECURSIVE TallyVotes(_, _, _)
TallyVotes(counts, used, i) ==
    IF i > Len(used) THEN counts
    ELSE TallyVotes(TallyPicks(counts, used[i].picks, 1), used, i + 1)

\* Object.keys(counts).map((cid) => ({ candidateId: cid, votes: counts[cid], days: 0 }))
InitialRows(counts) ==
    [k \in 1 .. Len(counts) |->
        [candidateId |-> counts[k].candidateId, votes |-> counts[k].votes, days |-> 0]]

\* Variant: r goes before the rows that tie with it.
InsertRowBeforeTies(sorted, r) ==
    LET p == Cardinality({k \in 1 .. Len(sorted) : sorted[k].votes > r.votes})
    IN  SubSeq(sorted, 1, p) \o <<r>> \o SubSeq(sorted, p + 1, Len(sorted))

\* One step of the stable sort: r goes after every row with at least its votes.
InsertRow(sorted, r) ==
    LET p == Cardinality({k \in 1 .. Len(sorted) : sorted[k].votes >= r.votes})
    IN  SubSeq(sorted, 1, p) \o <<r>> \o SubSeq(sorted, p + 1, Len(sorted))

\* rows.sort((a, b) => b.votes - a.votes): Array.prototype.sort is stable.
RECURSIVE SortFrom(_, _, _)
SortFrom(sorted, rows, k) ==
    IF k > Len(rows) THEN sorted
    ELSE SortFrom(InsertRow(sorted, rows[k]), rows, k + 1)

SortRows(rows) == SortFrom(<<>>, rows, 1)

\* rows.slice(0, 3)
Top3(rows) == SubSeq(rows, 1, Min(TopN, Len(rows)))

\* uniqueVoters: the voterIds of the used ballots whose picks include cid.
UniqueVoters(used, cid) ==
    {used[i].voterId : i \in {j \in 1 .. Len(used) : cid \in Range(used[j].picks)}}

\* days = 0; n >= 2: 1; n >= 3 && !hasGerente: 2; n >= 3 && hasGerente: 3
DaysRule(n, hasGerente) ==
    IF n >= FullAwardVoters THEN (IF hasGerente THEN 3 ELSE 2)
    ELSE IF n >= OneDayVoters THEN 1
    ELSE 0

\* Variant: n counts pick occurrences, not voters.
BaseDaysByOccurrences(used, gid, cid) ==
    LET uniqueVoters == UniqueVoters(used, cid)
        hasGerente == gid # Undefined /\ gid \in uniqueVoters
        n == Cardinality({<<j, k>> \in (1 .. Len(used)) \X (1 .. MaxPicks) :
                             k <= Len(used[j].picks) /\ used[j].picks[k] = cid})
    IN  DaysRule(n, hasGerente)

\* hasGerente = gerenteIdResolved && uniqueVoters.has(gerenteIdResolved)
BaseDays(used, gid, cid) ==
    LET uniqueVoters == UniqueVoters(used, cid)
        hasGerente == gid # Undefined /\ gid \in uniqueVoters
    IN  DaysRule(Cardinality(uniqueVoters), hasGerente)

\* daysPerCandidate after top3.forEach: a record with the top three candidates as keys.
BaseDaysPerCandidate(used, gid, sorted) ==
    [cid \in {Top3(sorted)[k].candidateId : k \in 1 .. Len(Top3(sorted))} |->
        BaseDays(used, gid, cid)]

\* daysPerCandidate[cid] || 0
DaysOf(dpc, cid) == IF cid \in DOMAIN dpc THEN dpc[cid] ELSE 0

\* usedVotes.find((v) => v.voterId === gerenteIdResolved): its position, or 0.
RECURSIVE FindVoteFrom(_, _, _)
FindVoteFrom(used, gid, i) ==
    IF i > Len(used) THEN 0
    ELSE IF used[i].voterId = gid THEN i
    ELSE FindVoteFrom(used, gid, i + 1)

\* The picks the bonus loop runs over: those of the Gerente's used ballot when
\* options.enableGerenteBonus && gerenteIdResolved && gerenteVote, else none.
BonusPicks(used, gid, opts) ==
    IF opts.enableGerenteBonus /\ gid # Undefined /\ FindVoteFrom(used, gid, 1) # 0
    THEN used[FindVoteFrom(used, gid, 1)].picks
    ELSE <<>>

\* daysPerCandidate[cid] = (daysPerCandidate[cid] || 0) + bonus, for each pick in turn.
RECURSIVE ApplyBonus(_, _, _, _)
ApplyBonus(dpc, picks, bonus, k) ==
    IF k > Len(picks) THEN dpc
    ELSE LET cid == picks[k]
             next == [c \in DOMAIN dpc \cup {cid} |->
                         IF c = cid THEN DaysOf(dpc, cid) + bonus[k] ELSE dpc[c]]
         IN  ApplyBonus(next, picks, bonus, k + 1)

\* Variant: every row keeps its tally.
FinalRowsNoCut(sorted, dpc) ==
    [k \in 1 .. Len(sorted) |->
        [sorted[k] EXCEPT !.days = DaysOf(dpc, sorted[k].candidateId)]]

\* Variant: the cut is one row late.
FinalRowsCutLate(sorted, dpc) ==
    [k \in 1 .. Len(sorted) |->
        [sorted[k] EXCEPT !.days =
            IF k <= TopN + 1 THEN DaysOf(dpc, sorted[k].candidateId) ELSE 0]]

\* rows.map((r, i) => ({ ...r, days: i < 3 ? (daysPerCandidate[r.candidateId] || 0) : 0 }))
FinalRows(sorted, dpc) ==
    [k \in 1 .. Len(sorted) |->
        [sorted[k] EXCEPT !.days =
            IF k <= TopN THEN DaysOf(dpc, sorted[k].candidateId) ELSE 0]]

\* The rows computeResults returns when it discards position i (0: none) and
\* draws bonus[k] for the k-th pick of the Gerente.
ResultRows(vs, gid, opts, i, bonus) ==
    LET used == UsedVotes(vs, i)
        sorted == SortRows(InitialRows(TallyVotes(<<>>, used, 1)))
        dpc == ApplyBonus(BaseDaysPerCandidate(used, gid, sorted),
                          BonusPicks(used, gid, opts), bonus, 1)
    IN  FinalRows(sorted, dpc)

----------------------------------------------------------------------------
\* isValidSchedule

\* An ISO date string "YYYY-MM-DD" is written as the record of its three fields.
Date(y, m, d) == [y |-> y, m |-> m, d |-> d]

EpochYear == 1970
EpochDow == 4
Monday == 1

IsLeap(y) == (y % 4 = 0 /\ y % 100 # 0) \/ y % 400 = 0

DaysInMonth(y, m) ==
    IF m = 2 THEN (IF IsLeap(y) THEN 29 ELSE 28)
    ELSE IF m \in {4, 6, 9, 11} THEN 30
    ELSE 31

DaysInYear(y) == IF IsLeap(y) THEN 366 ELSE 365

RECURSIVE DaysBeforeYear(_)
DaysBeforeYear(y) ==
    IF y <= EpochYear THEN 0 ELSE DaysInYear(y - 1) + DaysBeforeYear(y - 1)

RECURSIVE DaysBeforeMonth(_, _)
DaysBeforeMonth(y, m) ==
    IF m <= 1 THEN 0 ELSE DaysInMonth(y, m - 1) + DaysBeforeMonth(y, m - 1)

\* The day number of new Date(d + "T00:00:00Z"): whole days since 1970-01-01.
EpochDay(dt) == DaysBeforeYear(dt.y) + DaysBeforeMonth(dt.y, dt.m) + dt.d - 1

\* 24 * 60 * 60 * 1000 milliseconds.  Every time value here is a UTC midnight, a
\* multiple of 1000, and the code only subtracts and compares them, so the model
\* counts time in seconds to stay within the integers of the checker.
MS_PER_DAY == 24 * 60 * 60

\* dt.getTime()
getTime(dt) == EpochDay(dt) * MS_PER_DAY

\* dt.getUTCDay(): 0 is Sunday; 1970-01-01 was a Thursday.
getUTCDay(dt) == (getTime(dt) \div MS_PER_DAY + EpochDow) % 7

\* dateInfo after the loop that pushes one entry per date, in input order.
DateInfo(ds) ==
    [i \in 1 .. Len(ds) |-> [timestamp |-> getTime(ds[i]), dayOfWeek |-> getUTCDay(ds[i])]]

\* One step of the stable sort: e goes after every entry that is not later.
InsertInfo(sorted, e) ==
    LET p == Cardinality({k \in 1 .. Len(sorted) : sorted[k].timestamp <= e.timestamp})
    IN  SubSeq(sorted, 1, p) \o <<e>> \o SubSeq(sorted, p + 1, Len(sorted))

RECURSIVE SortInfoFrom(_, _, _)
SortInfoFrom(sorted, info, k) ==
    IF k > Len(info) THEN sorted
    ELSE SortInfoFrom(InsertInfo(sorted, info[k]), info, k + 1)

\* Variant: the entries stay in input order.
SortDateInfoSkipped(info) == info

\* dateInfo.sort((a, b) => a.timestamp - b.timestamp)
SortDateInfo(info) == SortInfoFrom(<<>>, info, 1)

\* for (const d of days) ... if (dow === 1) return
HasMonday(ds) == \E i \in 1 .. Len(ds) : getUTCDay(ds[i]) = Monday

\* for (let i = 1; ...) if (dateInfo[i].timestamp - dateInfo[i - 1].timestamp === MS_PER_DAY)
HasConsecutive(info) ==
    \E i \in 2 .. Len(info) : info[i].timestamp - info[i - 1].timestamp = MS_PER_DAY

Rejected(reason) == [ok |-> FALSE, reason |-> reason]

\* { ok: true }: no reason.
Accepted == [ok |-> TRUE]

\* Variant: the consecutive days are looked for before the Mondays.
isValidScheduleConsecutiveFirst(ds) ==
    IF Len(ds) = 0 THEN Rejected("Selecciona al menos un día")
    ELSE IF HasConsecutive(SortDateInfo(DateInfo(ds)))
         THEN Rejected("No se permiten días consecutivos")
    ELSE IF HasMonday(ds) THEN Rejected("No se permiten lunes")
    ELSE Accepted

isValidSchedule(ds) ==
    IF Len(ds) = 0 THEN Rejected("Selecciona al menos un día")
    ELSE IF HasMonday(ds) THEN Rejected("No se permiten lunes")
    ELSE IF HasConsecutive(SortDateInfo(DateInfo(ds)))
         THEN Rejected("No se permiten días consecutivos")
    ELSE Accepted

----------------------------------------------------------------------------
\* getScheduleStatus

\* A string is written as the sequence of its pieces: a piece is one of the
\* characters < > " ' & or a run of text without any of them.  "" is <<>>.
Text(s) == IF s = "" THEN <<>> ELSE <<s>>

HTML_ENTITIES ==
    [c \in {"<", ">", "\"", "'", "&"} |->
        CASE c = "<" -> <<"&", "lt;">>
          [] c = ">" -> <<"&", "gt;">>
          [] c = "\"" -> <<"&", "quot;">>
          [] c = "'" -> <<"&", "#x27;">>
          [] c = "&" -> <<"&", "amp;">>]

\* text.replace(/[<>"'&]/g, (match) => HTML_ENTITIES[match] || match)
RECURSIVE sanitizeText(_)
sanitizeText(text) ==
    IF text = <<>> THEN <<>>
    ELSE (IF Head(text) \in DOMAIN HTML_ENTITIES
          THEN HTML_ENTITIES[Head(text)]
          ELSE <<Head(text)>>) \o sanitizeText(Tail(text))

\* Variant: the counts are looked at before the error.
getScheduleStatusCountsFirst(sel, target, err) ==
    IF sel = target THEN [message |-> Text("Listo para programar"), isError |-> FALSE]
    ELSE IF err # <<>> THEN [message |-> sanitizeText(err), isError |-> TRUE]
    ELSE [message |-> Text("Selecciona las fechas requeridas"), isError |-> FALSE]

getScheduleStatus(sel, target, err) ==
    IF err # <<>> THEN [message |-> sanitizeText(err), isError |-> TRUE]
    ELSE IF sel = target THEN [message |-> Text("Listo para programar"), isError |-> FALSE]
    ELSE [message |-> Text("Selecciona las fechas requeridas"), isError |-> FALSE]

----------------------------------------------------------------------------
\* The voting boards: handleDropSlot, swapSlots, removeVote and the votes memo.

\* The "" that removeVote writes.  An array element that was never written reads
\* as undefined, and the copies [...slots] turn it into undefined.
Blank == -1

Max(a, b) == IF a >= b THEN a ELSE b

\* slots[i] at position p; undefined beyond the length.
At(slots, p) == IF p \in 1 .. Len(slots) THEN slots[p] ELSE Undefined

\* slots[i] = v at position p; an assignment beyond the length lengthens the array.
SetAt(slots, p, v) ==
    [k \in 1 .. Max(Len(slots), p) |-> IF k = p THEN v ELSE At(slots, k)]

\* slots.indexOf(id): the first position that holds id, or 0 for -1.
IndexOf(slots, id) ==
    IF \E k \in 1 .. Len(slots) : slots[k] = id
    THEN CHOOSE k \in 1 .. Len(slots) :
             slots[k] = id /\ \A h \in 1 .. (k - 1) : slots[h] # id
    ELSE 0

\* slots.splice(p, 1)
Splice1(slots, p) == SubSeq(slots, 1, p - 1) \o SubSeq(slots, p + 1, Len(slots))

\* A value that is not undefined and not "".
Truthy(v) == v # Undefined /\ v # Blank

\* swapSlots(slots, id, slotIndex, existingIdx), slotIndex at position p and
\* existingIdx at position e (0: -1).
swapSlots(slots, id, p, e) ==
    LET tmp == At(slots, p)
        newSlots == SetAt(slots, p, id)
    IN  IF e >= 1 /\ Truthy(tmp) THEN SetAt(newSlots, e, tmp) ELSE newSlots

\* Variant: the id stays where it was when it is dropped again.
DropSlotKeepsOld(prevSlots, id, p) ==
    swapSlots(prevSlots, id, p, IndexOf(prevSlots, id))

\* The board that the updater of handleDropSlot returns for prev[voterId].
DropSlot(prevSlots, id, p) ==
    LET existingIdx == IndexOf(prevSlots, id)
        slots == IF existingIdx >= 1 THEN Splice1(prevSlots, existingIdx) ELSE prevSlots
    IN  swapSlots(slots, id, p, existingIdx)

\* The board that the updater of removeVote returns: slots[index] = "".
ClearSlot(prevSlots, p) == SetAt(prevSlots, p, Blank)

\* users.filter((u) => u.role === "Jefatura" || u.role === "Gerente")
jefeUsers(us) == SelectSeq(us, LAMBDA u : u.role = "Jefatura" \/ u.role = "Gerente")

\* (boards[j.id] || []).filter(Boolean)
Picks(slots) == SelectSeq(slots, Truthy)

\* votes = jefeUsers.map((j) => ({ voterId: j.id, picks: ... }))
VotesOf(us, bs) ==
    [i \in 1 .. Len(jefeUsers(us)) |->
        [voterId |-> jefeUsers(us)[i].id,
         picks |-> IF jefeUsers(us)[i].id \in DOMAIN bs
                   THEN Picks(bs[jefeUsers(us)[i].id]) ELSE <<>>]]

\* The initial boards: o[j.id] = [] for every j of jefeUsers.
EmptyBoards(us) ==
    [v \in {jefeUsers(us)[i].id : i \in 1 .. Len(jefeUsers(us))} |-> <<>>]

----------------------------------------------------------------------------
\* toggleDay and validateSchedule

\* prev[cid] || []
SelectionOf(sched, cid) == IF cid \in DOMAIN sched THEN sched[cid] ELSE <<>>

\* scheduleErrors[cid] || ""
ErrorOf(errs, cid) == IF cid \in DOMAIN errs THEN errs[cid] ELSE ""

\* { ...prev, [cid]: value }
With(rec, cid, value) ==
    [c \in DOMAIN rec \cup {cid} |-> IF c = cid THEN value ELSE rec[c]]

\* Array.from(set) after set.delete(date) or set.add(date): a Set lists its
\* elements in insertion order.
Toggled(sel, date) ==
    IF \E k \in 1 .. Len(sel) : sel[k] = date
    THEN SelectSeq(sel, LAMBDA x : x # date)
    ELSE Append(sel, date)

\* v.ok ? "" : v.reason || ""
ErrorText(v) == IF v.ok THEN "" ELSE v.reason

\* The status the scheduling card shows for cid.
StatusOf(sched, errs, target, cid) ==
    getScheduleStatus(Len(SelectionOf(sched, cid)), target, Text(ErrorOf(errs, cid)))

----------------------------------------------------------------------------
\* Inputs.

\* The picks of all ballots in reading order: t picks that name candidates.  Ids
\* are opaque to the tally (it only compares them), so the candidates named are
\* taken to be u1..um for some m, in any order of occurrence.  A candidate may be
\* named twice, also on one ballot: picks is any string[].
PickRuns ==
    [t \in 0 .. MaxTotalPicks |->
        {f \in [1 .. t -> Cands] : Range(f) = 1 .. Cardinality(Range(f))}]

RECURSIVE Total(_, _)
Total(l, n) == IF n = 0 THEN 0 ELSE l[n] + Total(l, n - 1)

\* How many picks each of n ballots holds: at most MaxPicks ("top 3
\* candidateIds en orden"), at most MaxTotalPicks in all.
BallotSizes(n) ==
    {l \in [1 .. n -> 0 .. MaxPicks] : Total(l, n) <= MaxTotalPicks}

\* One ballot per voter, in the order of the voters: votes = jefeUsers.map(...).
VoteLists ==
    UNION {UNION {{[i \in 1 .. n |->
                      [voterId |-> VoterId(i),
                       picks |-> SubSeq(f, Total(l, i - 1) + 1, Total(l, i))]] :
                     f \in PickRuns[Total(l, n)]} :
                  l \in BallotSizes(n)} :
           n \in 0 .. NumVoters}

\* A roster of the voters, all Jefatura but voter g, who has the role Gerente,
\* and all titled Head but voter t, who has the title CIO (0: nobody).
Roster(t, g) ==
    [i \in 1 .. NumVoters |->
        [id |-> VoterId(i),
         role |-> IF i = g THEN "Gerente" ELSE "Jefatura",
         title |-> IF i = t THEN "CIO" ELSE "Head"]]

\* The seed roster's shape, where the Gerente is the CIO (or there is none), and
\* one roster where an earlier Jefatura holds the title.
Rosters == {Roster(g, g) : g \in 0 .. NumVoters} \cup {Roster(1, NumVoters)}

OptionSets == [discardOneRandomVote : BOOLEAN, enableGerenteBonus : BOOLEAN]

NoResults == [rows |-> <<>>, discardedVoterId |-> Undefined]

\* discardVote and enableGerenteBonus as the App starts.
DefaultOptions == [discardOneRandomVote |-> TRUE, enableGerenteBonus |-> TRUE]

\* Consecutive days of a leap year from Monday 2024-02-26 on, over the end of
\* February: the buttons of the scheduling card are consecutive days as well.
Calendar ==
    << Date(2024, 2, 26), Date(2024, 2, 27), Date(2024, 2, 28), Date(2024, 2, 29),
       Date(2024, 3, 1), Date(2024, 3, 2), Date(2024, 3, 3), Date(2024, 3, 4) >>

Dates == {Calendar[i] : i \in 1 .. Min(NumDates, Len(Calendar))}

\* Any list of dates, in any order, a date possibly more than once.
DayLists == SeqsUpTo(Dates, MaxDays)

NoVerdict == Rejected("")

\* The pieces of the error strings: the three reasons of isValidSchedule and the
\* characters that sanitizeText replaces.
Pieces ==
    {"Selecciona al menos un día", "No se permiten lunes",
     "No se permiten días consecutivos", "<", ">", "\"", "'", "&"}

Errors == SeqsUpTo(Pieces, MaxErrLen)

NoStatus == [message |-> <<>>, isError |-> FALSE]

\* A roster in the order of the seed: the candidates (Integrante), then a
\* Jefatura, an Asistente and the Gerente, who is the CIO.
BoardRoster ==
    [i \in 1 .. NumCands |-> [id |-> i, role |-> "Integrante", title |-> "Dev"]]
    \o << [id |-> VoterId(1), role |-> "Jefatura", title |-> "Head"],
          [id |-> VoterId(2), role |-> "Asistente", title |-> "Asistente TI"],
          [id |-> VoterId(3), role |-> "Gerente", title |-> "CIO"] >>

\* The candidate whose scheduling card is followed.
SchedCid == 1

----------------------------------------------------------------------------
\* The state machine: the inputs are fixed, computeResults is called on them.

\* No call of isValidSchedule or getScheduleStatus under way.
ValidIdle == days = <<>> /\ verdict = NoVerdict

StatusIdle == selectedDays = 0 /\ error = <<>>

\* The scheduling state as the App starts: both records are {}.
SchedIdle == scheduleByCandidate = <<>> /\ scheduleErrors = <<>>

\* No call of computeResults made yet.
TallyIdle ==
    /\ GERENTE_CACHE = [has |-> FALSE, val |-> Undefined]
    /\ pc = "idle"
    /\ calls = 0
    /\ gerenteId = Undefined
    /\ idx = 0
    /\ draws = 0
    /\ results = NoResults

Init ==
    /\ users \in Rosters
    /\ votes \in VoteLists
    /\ options \in OptionSets
    /\ TallyIdle
    /\ boards = <<>>
    /\ ValidIdle
    /\ StatusIdle
    /\ targetDays = 0
    /\ status = NoStatus
    /\ SchedIdle

ComputeResults ==
    /\ LET gid == findGerenteId(users, GERENTE_CACHE)
       IN  \E i \in DiscardChoices(votes, options) :
             LET picks == BonusPicks(UsedVotes(votes, i), gid, options)
             IN  \E bonus \in [1 .. Len(picks) -> randomInt(BonusMin, BonusMax)] :
                   /\ results' = [rows |-> ResultRows(votes, gid, options, i, bonus),
                                  discardedVoterId |-> DiscardedVoterId(votes, i)]
                   /\ gerenteId' = gid
                   /\ idx' = i
                   /\ draws' = (IF i # 0 THEN 1 ELSE 0) + Len(picks)
    /\ GERENTE_CACHE' = CacheAfter(users, GERENTE_CACHE)
    /\ pc' = "done"
    /\ calls' = calls + 1
    /\ UNCHANGED <<users, votes, options>>
    /\ UNCHANGED <<validVars, statusVars, targetDays, boardVars, schedVars>>

\* The results view renders once.
Next == calls < 1 /\ ComputeResults

Spec == Init /\ [][Next]_vars

\* The results view renders again on the same inputs.
NextTwice == calls < MaxCalls /\ ComputeResults

\* With both random features off.
InitPlain ==
    /\ Init
    /\ ~options.discardOneRandomVote
    /\ ~options.enableGerenteBonus

SpecTwice == InitPlain /\ [][NextTwice]_vars

----------------------------------------------------------------------------
\* isValidSchedule called on a list of dates.

InitValid ==
    /\ days \in DayLists
    /\ verdict = NoVerdict
    /\ users = <<>>
    /\ votes = <<>>
    /\ options = DefaultOptions
    /\ TallyIdle
    /\ boards = <<>>
    /\ StatusIdle
    /\ targetDays = 0
    /\ status = NoStatus
    /\ SchedIdle

IsValidSchedule ==
    /\ pc = "idle"
    /\ verdict' = isValidSchedule(days)
    /\ pc' = "done"
    /\ UNCHANGED <<days, users, votes, tallyVars, statusVars, targetDays, boardVars, schedVars>>

NextValid == IsValidSchedule

SpecValid == InitValid /\ [][NextValid]_vars

----------------------------------------------------------------------------
\* getScheduleStatus called on two counts and an error string.

InitStatus ==
    /\ selectedDays \in 0 .. MaxDays
    /\ targetDays \in 0 .. MaxDays
    /\ error \in Errors
    /\ status = NoStatus
    /\ users = <<>>
    /\ votes = <<>>
    /\ options = DefaultOptions
    /\ TallyIdle
    /\ boards = <<>>
    /\ ValidIdle
    /\ SchedIdle

GetScheduleStatus ==
    /\ pc = "idle"
    /\ status' = getScheduleStatus(selectedDays, targetDays, error)
    /\ pc' = "done"
    /\ UNCHANGED <<selectedDays, targetDays, error, users, votes, tallyVars,
                   validVars, boardVars, schedVars>>

NextStatus == GetScheduleStatus

SpecStatus == InitStatus /\ [][NextStatus]_vars

----------------------------------------------------------------------------
\* The voting tab: candidates are dropped on the three slots of each board and
\* taken off again.  votes is recomputed from the boards when they change.

InitBoards ==
    /\ users = BoardRoster
    /\ boards = EmptyBoards(users)
    /\ votes = VotesOf(users, boards)
    /\ options = DefaultOptions
    /\ TallyIdle
    /\ ValidIdle
    /\ StatusIdle
    /\ targetDays = 0
    /\ status = NoStatus
    /\ SchedIdle

\* handleDropSlot(e, voterId, slotIndex) with id = e.dataTransfer.getData("text/plain"),
\* the id of a candidate card.
HandleDropSlot ==
    \E voterId \in DOMAIN boards : \E slotIndex \in 0 .. (MaxPicks - 1) : \E id \in Cands :
        /\ boards' = With(boards, voterId, DropSlot(boards[voterId], id, slotIndex + 1))
        /\ votes' = VotesOf(users, boards')
        /\ UNCHANGED <<users, pc, tallyVars, validVars, statusVars, targetDays, schedVars>>

\* removeVote(voterId, index): the button of a slot that shows a candidate.
RemoveVote ==
    \E voterId \in DOMAIN boards : \E index \in 0 .. (MaxPicks - 1) :
        /\ \E k \in 1 .. Len(users) : users[k].id = At(boards[voterId], index + 1)
        /\ boards' = With(boards, voterId, ClearSlot(boards[voterId], index + 1))
        /\ votes' = VotesOf(users, boards')
        /\ UNCHANGED <<users, pc, tallyVars, validVars, statusVars, targetDays, schedVars>>

NextBoards == HandleDropSlot \/ RemoveVote

SpecBoards == InitBoards /\ [][NextBoards]_vars

----------------------------------------------------------------------------
\* The scheduling card of one candidate: dates are toggled and the selection is
\* validated on request.  The status line is computed anew on every render.

InitSchedule ==
    /\ SchedIdle
    /\ targetDays \in 0 .. MaxDays
    /\ status = StatusOf(scheduleByCandidate, scheduleErrors, targetDays, SchedCid)
    /\ users = <<>>
    /\ votes = <<>>
    /\ options = DefaultOptions
    /\ TallyIdle
    /\ boards = <<>>
    /\ ValidIdle
    /\ StatusIdle

\* toggleDay(cid, date)
ToggleDay ==
    \E date \in Dates :
        /\ scheduleByCandidate' =
               With(scheduleByCandidate, SchedCid,
                    Toggled(SelectionOf(scheduleByCandidate, SchedCid), date))
        /\ status' = StatusOf(scheduleByCandidate', scheduleErrors, targetDays, SchedCid)
        /\ UNCHANGED <<scheduleErrors, targetDays, users, votes, pc, tallyVars,
                       validVars, selectedDays, error, boardVars>>

\* validateSchedule(cid)
ValidateSchedule ==
    /\ scheduleErrors' =
           With(scheduleErrors, SchedCid,
                ErrorText(isValidSchedule(SelectionOf(scheduleByCandidate, SchedCid))))
    /\ status' = StatusOf(scheduleByCandidate, scheduleErrors', targetDays, SchedCid)
    /\ UNCHANGED <<scheduleByCandidate, targetDays, users, votes, pc, tallyVars,
                   validVars, selectedDays, error, boardVars>>

NextSchedule == ToggleDay \/ ValidateSchedule

SpecSchedule == InitSchedule /\ [][NextSchedule]_vars

----------------------------------------------------------------------------
\* computeResults called again and again on one roster array whose members are
\* changed in place between the calls.

\* Three voters with one pick each, both random features off.
InitCache ==
    /\ InitPlain
    /\ Len(votes) = NumVoters
    /\ \A i \in 1 .. Len(votes) : Len(votes[i].picks) = 1

\* users[i].role = r or users[i].title = t, on the array itself.
MutateInPlace ==
    \E i \in 1 .. Len(users) :
        /\ \/ \E r \in {"Jefatura", "Gerente"} : users' = [users EXCEPT ![i].role = r]
           \/ \E t \in {"Head", "CIO"} : users' = [users EXCEPT ![i].title = t]
        /\ users' # users
        /\ UNCHANGED <<votes, pc, tallyVars, validVars, statusVars, targetDays,
                       boardVars, schedVars>>

NextCache == NextTwice \/ MutateInPlace

SpecCache == InitCache /\ [][NextCache]_vars

----------------------------------------------------------------------------
\* What the claims speak of, stated on the inputs and the returned value alone.

Done == pc = "done"

rows == results.rows

\* The positions of the ballots other than the one at position i.
Others(i) == {j \in 1 .. Len(votes) : j # i}

\* How often ballot j lists candidate c.
Occurrences(c, j) == Cardinality({k \in 1 .. Len(votes[j].picks) : votes[j].picks[k] = c})

\* f[1] + ... + f[n]
RECURSIVE SumTo(_, _)
SumTo(f, n) == IF n = 0 THEN 0 ELSE f[n] + SumTo(f, n - 1)

\* The pick occurrences of c over the ballots at the positions J.
PickCount(c, J) ==
    SumTo([j \in 1 .. Len(votes) |-> IF j \in J THEN Occurrences(c, j) ELSE 0],
          Len(votes))

TotalPicks(J) ==
    SumTo([j \in 1 .. Len(votes) |-> IF j \in J THEN Len(votes[j].picks) ELSE 0],
          Len(votes))

TotalVotes == SumTo([k \in 1 .. Len(rows) |-> rows[k].votes], Len(rows))

\* The counted ballots of the call: all but the one drawn.
Counted == Others(idx)

\* The distinct voters among the counted ballots that list c.
VotersFor(c) == {votes[j].voterId : j \in {i \in Counted : Occurrences(c, i) > 0}}

\* The candidates on the counted ballot of the Executive the call used.
ExecutivePicks ==
    IF gerenteId = Undefined THEN {}
    ELSE UNION {Range(votes[j].picks) : j \in {i \in Counted : votes[i].voterId = gerenteId}}

\* The table of the base rule.
TableDays(c) ==
    LET n == Cardinality(VotersFor(c))
    IN  IF n <= 1 THEN 0
        ELSE IF n = 2 THEN 1
        ELSE IF gerenteId # Undefined /\ gerenteId \in VotersFor(c) THEN 3
        ELSE 2

\* The base-rule days of the row at position k: the table among the first three.
BaseOfRow(k) == IF k <= TopN THEN TableDays(rows[k].candidateId) ELSE 0

\* The place of c's first occurrence when the counted ballots are read in list
\* order and each ballot's picks in pick order.
FirstSeen(c) ==
    LET j == CHOOSE i \in Counted :
                 /\ Occurrences(c, i) > 0
                 /\ \A h \in Counted : h < i => Occurrences(c, h) = 0
        k == CHOOSE q \in 1 .. Len(votes[j].picks) :
                 /\ votes[j].picks[q] = c
                 /\ \A h \in 1 .. (q - 1) : votes[j].picks[h] # c
    IN  j * (MaxPicks + 1) + k

----------------------------------------------------------------------------
\* C1 as stated: with the bonus enabled and the Executive's ballot counted, a
\* candidate on that ballot whose row is at position 4 or later is returned with
\* a nonzero days value.
C1_BonusRegardlessOfRank ==
    (Done /\ options.enableGerenteBonus) =>
        \A k \in 1 .. Len(rows) :
            (k > TopN /\ rows[k].candidateId \in ExecutivePicks) => rows[k].days # 0

\* C1 as amended: with the bonus enabled and the Executive's ballot counted, a
\* candidate on that ballot is returned with at least one day more than its base
\* days when its row is among the first three, and with days = 0 when its row is
\* at position 4 or later.
C1_BonusWithinFirstThree ==
    (Done /\ options.enableGerenteBonus) =>
        \A k \in 1 .. Len(rows) :
            rows[k].candidateId \in ExecutivePicks =>
                IF k <= TopN THEN rows[k].days >= BaseOfRow(k) + BonusMin
                ELSE rows[k].days = 0

C1_Witness ==
    /\ Done
    /\ options.enableGerenteBonus
    /\ \E k \in 1 .. Len(rows) :
          k > TopN /\ rows[k].candidateId \in ExecutivePicks /\ rows[k].days = 0
    /\ \E k \in 1 .. Len(rows) :
          k <= TopN /\ rows[k].candidateId \in ExecutivePicks /\ rows[k].days > 0

\* C2: every returned row at position 4 or later has days = 0, whatever the
\* inputs and the options.
C2_OnlyFirstThreeCarryDays ==
    Done => \A k \in 1 .. Len(rows) : k > TopN => rows[k].days = 0

C2_Witness ==
    /\ Done
    /\ Len(rows) > TopN
    /\ options.enableGerenteBonus
    /\ rows[TopN + 1].candidateId \in ExecutivePicks
    /\ rows[TopN + 1].days = 0
    /\ rows[TopN].days > 0

\* C3: the Executive the call uses is the first roster member with the role
\* Gerente; the first member titled CIO only when nobody has the role.
C3_RoleMatchWins ==
    Done =>
        LET byRole == {i \in 1 .. Len(users) : users[i].role = "Gerente"}
            byTitle == {i \in 1 .. Len(users) : users[i].title = "CIO"}
            first(S) == CHOOSE i \in S : \A j \in S : i <= j
        IN  gerenteId = IF byRole # {} THEN users[first(byRole)].id
                        ELSE IF byTitle # {} THEN users[first(byTitle)].id
                        ELSE Undefined

\* C4: with the bonus disabled, each of the first three rows has the days of the
\* table, by the number of distinct voters of the counted ballots that list the
\* candidate and by whether the Executive is one of them.
C4_BaseRule ==
    (Done /\ ~options.enableGerenteBonus) =>
        \A k \in 1 .. Len(rows) :
            k <= TopN => rows[k].days = TableDays(rows[k].candidateId)

\* A candidate listed twice on one ballot and named by three voters, the
\* Executive among them: four votes, three voters, three days.
C4_Witness ==
    /\ Done
    /\ ~options.enableGerenteBonus
    /\ \E k \in 1 .. Len(rows) :
          LET c == rows[k].candidateId
          IN  /\ k <= TopN
              /\ Cardinality(VotersFor(c)) = 3
              /\ gerenteId \in VotersFor(c)
              /\ \E j \in Counted : Occurrences(c, j) = 2
              /\ rows[k].days = 3

\* C5: without the discard there is exactly one row per candidate that occurs in
\* some ballot, and the rows' votes add up to the number of pick occurrences.
C5_TallyCountsEveryPick ==
    (Done /\ ~options.discardOneRandomVote) =>
        LET all == 1 .. Len(votes)
        IN  /\ {rows[k].candidateId : k \in 1 .. Len(rows)}
                 = UNION {Range(votes[j].picks) : j \in all}
            /\ \A j, k \in 1 .. Len(rows) :
                  rows[j].candidateId = rows[k].candidateId => j = k
            /\ TotalVotes = TotalPicks(all)

C5_Witness ==
    /\ Done
    /\ ~options.discardOneRandomVote
    /\ Len(rows) >= 2
    /\ \E k \in 1 .. Len(rows) : \E j \in 1 .. Len(votes) :
          Occurrences(rows[k].candidateId, j) = 2 /\ rows[k].votes = 2

\* C6: the rows are in non-increasing order of votes, and rows with equal votes
\* are in the order in which the tally first met their candidates.
C6_SortedStable ==
    Done =>
        \A j, k \in 1 .. Len(rows) :
            j < k =>
                /\ rows[j].votes >= rows[k].votes
                /\ rows[j].votes = rows[k].votes =>
                      FirstSeen(rows[j].candidateId) < FirstSeen(rows[k].candidateId)

\* Two tied rows whose first-met order is against the order of their ids, below
\* a row with more votes whose candidate was met last.
C6_Witness ==
    /\ Done
    /\ Len(rows) = 3
    /\ rows[1].votes > rows[2].votes
    /\ rows[2].votes = rows[3].votes
    /\ rows[2].candidateId > rows[3].candidateId
    /\ FirstSeen(rows[1].candidateId) > FirstSeen(rows[3].candidateId)

\* C7: with the discard on and at least one ballot, the ballot at one position is
\* left out of the tally and discardedVoterId is its voter; otherwise nothing is
\* left out and discardedVoterId is undefined.
C7_DiscardExactlyOne ==
    Done =>
        LET tallyIs(J) ==
                /\ \A k \in 1 .. Len(rows) :
                      rows[k].votes = PickCount(rows[k].candidateId, J)
                /\ TotalVotes = TotalPicks(J)
        IN  IF options.discardOneRandomVote /\ Len(votes) >= 1
            THEN \E i \in 1 .. Len(votes) :
                    /\ results.discardedVoterId = votes[i].voterId
                    /\ tallyIs(Others(i))
            ELSE /\ results.discardedVoterId = Undefined
                 /\ tallyIs(1 .. Len(votes))

C7_Witness ==
    /\ Done
    /\ options.discardOneRandomVote
    /\ Len(votes) = NumVoters
    /\ \E i \in 2 .. Len(votes) :
          /\ results.discardedVoterId = votes[i].voterId
          /\ Len(votes[i].picks) >= 2
          /\ TotalVotes = TotalPicks(Others(i))
          /\ TotalVotes > 0

\* C8: when the call found no Executive, or the Executive's ballot is discarded,
\* or the Executive has no ballot, every returned row has days in {0, 1, 2}.
C8_NoExecutiveNoThirdDay ==
    (Done /\ (gerenteId = Undefined
              \/ \A j \in 1 .. Len(votes) :
                    votes[j].voterId = gerenteId =>
                        results.discardedVoterId = gerenteId)) =>
        \A k \in 1 .. Len(rows) : rows[k].days \in {0, 1, 2}

\* The Executive's ballot, with picks, is the one discarded while the bonus is on,
\* and a row still earns a day from two other voters.
C8_Witness ==
    /\ Done
    /\ options.enableGerenteBonus
    /\ gerenteId # Undefined
    /\ results.discardedVoterId = gerenteId
    /\ \E j \in 1 .. Len(votes) :
          votes[j].voterId = gerenteId /\ Len(votes[j].picks) >= 1
    /\ \E k \in 1 .. Len(rows) : rows[k].days = 1

\* C9: with the bonus enabled, a row's final days less its base days is 0 when
\* the candidate is not on the Executive's counted ballot, and from 1 to 3 when it
\* is and the row is among the first three.
C9_BonusBetweenOneAndThree ==
    (Done /\ options.enableGerenteBonus) =>
        \A k \in 1 .. Len(rows) :
            LET diff == rows[k].days - BaseOfRow(k)
            IN  IF rows[k].candidateId \in ExecutivePicks
                THEN k <= TopN => diff \in BonusMin .. BonusMax
                ELSE diff = 0

\* C10: a second call on the same inputs with both options off returns what the
\* first returned, with discardedVoterId undefined both times and no draw made.
C10_RepeatableWhenPlain ==
    [][(calls = 1 /\ ~options.discardOneRandomVote /\ ~options.enableGerenteBonus) =>
          /\ results' = results
          /\ results.discardedVoterId = Undefined
          /\ results'.discardedVoterId = Undefined
          /\ draws = 0
          /\ draws' = 0]_vars

C10_Witness ==
    /\ calls = 2
    /\ ~options.discardOneRandomVote
    /\ ~options.enableGerenteBonus
    /\ Len(rows) >= 2
    /\ \E k \in 1 .. Len(rows) : rows[k].days > 0

----------------------------------------------------------------------------
\* The calendar as the claims on schedules speak of it, by the rules of the
\* calendar and not by time values.

\* The date of the next calendar day.
NextDate(dt) ==
    IF dt.d < DaysInMonth(dt.y, dt.m) THEN Date(dt.y, dt.m, dt.d + 1)
    ELSE IF dt.m < 12 THEN Date(dt.y, dt.m + 1, 1)
    ELSE Date(dt.y + 1, 1, 1)

\* The day of the week by the month-offset rule: 0 is Sunday.
Weekday(dt) ==
    LET t == <<0, 3, 2, 5, 0, 3, 5, 1, 4, 6, 2, 4>>
        y == IF dt.m < 3 THEN dt.y - 1 ELSE dt.y
    IN  (y + y \div 4 - y \div 100 + y \div 400 + t[dt.m] + dt.d) % 7

AnyMonday(ds) == \E i \in 1 .. Len(ds) : Weekday(ds[i]) = 1

\* Two dates of the list, wherever they stand, are one calendar day apart.
AnyOneDayApart(ds) == \E i, j \in 1 .. Len(ds) : ds[j] = NextDate(ds[i])

\* The rearrangements of the list ds.
Rearranged(ds) ==
    {[i \in 1 .. Len(ds) |-> ds[f[i]]] :
        f \in {g \in [1 .. Len(ds) -> 1 .. Len(ds)] : Range(g) = 1 .. Len(ds)}}

\* C11: the first failing rule decides the returned value: the empty list is
\* rejected with "Selecciona al menos un día", a list with a Monday with "No se
\* permiten lunes" whatever else it holds, a list without a Monday but with two
\* dates one day apart with "No se permiten días consecutivos", and every other
\* list is accepted with no reason.
C11_FirstFailingRuleDecides ==
    Done =>
        verdict = IF Len(days) = 0 THEN [ok |-> FALSE, reason |-> "Selecciona al menos un día"]
                  ELSE IF AnyMonday(days) THEN [ok |-> FALSE, reason |-> "No se permiten lunes"]
                  ELSE IF AnyOneDayApart(days)
                       THEN [ok |-> FALSE, reason |-> "No se permiten días consecutivos"]
                  ELSE [ok |-> TRUE]

\* A list whose first two dates are one day apart and whose last date is a Monday.
C11_Witness ==
    /\ Done
    /\ Len(days) = 3
    /\ days[2] = NextDate(days[1])
    /\ Weekday(days[1]) # 1
    /\ Weekday(days[2]) # 1
    /\ Weekday(days[3]) = 1
    /\ verdict.reason = "No se permiten lunes"

\* C12: ok is true exactly when the list is not empty, holds no Monday and holds
\* no two dates one calendar day apart, and every rearrangement of the list gets
\* the same result.
C12_AcceptsExactlyTheValidLists ==
    Done =>
        /\ verdict.ok <=> (Len(days) > 0 /\ ~AnyMonday(days) /\ ~AnyOneDayApart(days))
        /\ \A other \in Rearranged(days) : isValidSchedule(other) = verdict

\* Three dates without a Monday, the first the day after the last, over the end
\* of the month, and no date the day after the one before it in the list.
C12_Witness ==
    /\ Done
    /\ Len(days) = 3
    /\ ~AnyMonday(days)
    /\ days[1] = NextDate(days[3])
    /\ days[1].m # days[3].m
    /\ days[2] # NextDate(days[1])
    /\ days[3] # NextDate(days[2])
    /\ days[2] # days[3]
    /\ ~verdict.ok

\* C13 as stated: a non-empty error is the message, with isError true, whatever
\* the counts; with an empty error, equal counts give "Listo para programar" and
\* other counts "Selecciona las fechas requeridas", with isError false.
C13_ErrorIsTheMessage ==
    Done =>
        status = IF error # <<>> THEN [message |-> error, isError |-> TRUE]
                 ELSE IF selectedDays = targetDays
                      THEN [message |-> <<"Listo para programar">>, isError |-> FALSE]
                 ELSE [message |-> <<"Selecciona las fechas requeridas">>, isError |-> FALSE]

\* The error with each of < > " ' & replaced by its HTML entity.
RECURSIVE Escaped(_, _)
Escaped(e, k) ==
    IF k = 0 THEN <<>>
    ELSE Escaped(e, k - 1) \o
         (CASE e[k] = "<" -> <<"&", "lt;">>
            [] e[k] = ">" -> <<"&", "gt;">>
            [] e[k] = "\"" -> <<"&", "quot;">>
            [] e[k] = "'" -> <<"&", "#x27;">>
            [] e[k] = "&" -> <<"&", "amp;">>
            [] OTHER -> <<e[k]>>)

\* C13 as amended: a non-empty error gives isError true and, as message, the
\* error with each of < > " ' & replaced by its HTML entity, whatever the counts;
\* with an empty error, equal counts give "Listo para programar" and other counts
\* "Selecciona las fechas requeridas", with isError false.
C13_EscapedErrorIsTheMessage ==
    Done =>
        status = IF error # <<>> THEN [message |-> Escaped(error, Len(error)), isError |-> TRUE]
                 ELSE IF selectedDays = targetDays
                      THEN [message |-> <<"Listo para programar">>, isError |-> FALSE]
                 ELSE [message |-> <<"Selecciona las fechas requeridas">>, isError |-> FALSE]

\* Equal counts and an error with a character that is replaced.
C13_Witness ==
    /\ Done
    /\ selectedDays = targetDays
    /\ Len(error) = 2
    /\ error[1] = "No se permiten lunes"
    /\ error[2] = "<"
    /\ status.isError
    /\ status.message # error

\* The candidates on the board of voter v.
OnBoard(bs, v) == {bs[v][p] : p \in 1 .. Len(bs[v])} \cap Cands

\* The roster members who vote.
Voters == {users[k].id : k \in {h \in 1 .. Len(users) : users[h].role \in {"Jefatura", "Gerente"}}}

\* C14: whatever was dropped and removed, every ballot of votes holds at most
\* three candidate ids, none twice, and they are the candidates on the voter's
\* board in slot order; there is exactly one ballot for each roster member with
\* the role Jefatura or Gerente, and no other ballot.
C14_BallotsWellFormed ==
    /\ \A i \in 1 .. Len(votes) :
          /\ Len(votes[i].picks) <= MaxPicks
          /\ \A j, k \in 1 .. Len(votes[i].picks) :
                votes[i].picks[j] = votes[i].picks[k] => j = k
          /\ Range(votes[i].picks) = OnBoard(boards, votes[i].voterId)
          /\ Len(boards[votes[i].voterId]) <= MaxPicks
    /\ \A v \in Voters : Cardinality({i \in 1 .. Len(votes) : votes[i].voterId = v}) = 1
    /\ \A i \in 1 .. Len(votes) : votes[i].voterId \in Voters

\* One board is full; on the other a slot was cleared, one was never written, and
\* the last holds a candidate of the full board.
C14_Witness ==
    \E v, w \in Voters :
        /\ v # w
        /\ Cardinality(OnBoard(boards, v)) = MaxPicks
        /\ Len(boards[w]) = MaxPicks
        /\ Blank \in Range(boards[w])
        /\ Undefined \in Range(boards[w])
        /\ boards[w][MaxPicks] \in OnBoard(boards, v)
        /\ \E i \in 1 .. Len(votes) : votes[i].voterId = w /\ Len(votes[i].picks) = 1

\* C15: every call of computeResults uses the Executive that an uncached search
\* of the roster's contents at the time of the call finds.
C15_LookupIsStateless ==
    [][calls' = calls + 1 => gerenteId' = FindFrom(users', 1)]_vars

\* C16: after a drop of id on slot slotIndex of a voter's board, whatever the board
\* held before, the board holds id at index slotIndex.
C16_DroppedIdIsInItsSlot ==
    [][\A v \in DOMAIN boards : \A slotIndex \in 0 .. (MaxPicks - 1) : \A id \in Cands :
          boards' = With(boards, v, DropSlot(boards[v], id, slotIndex + 1))
              => At(boards'[v], slotIndex + 1) = id]_vars

\* C17: a drop of a candidate that is already on the voter's board leaves the set
\* of candidates on that board as it was, and leaves every other board unchanged.
C17_DropOnOwnBoardRearranges ==
    [][\A v \in DOMAIN boards : \A slotIndex \in 0 .. (MaxPicks - 1) : \A id \in Cands :
          (/\ id \in OnBoard(boards, v)
           /\ boards' = With(boards, v, DropSlot(boards[v], id, slotIndex + 1)))
              => /\ OnBoard(boards', v) = OnBoard(boards, v)
                 /\ \A w \in DOMAIN boards : w # v => boards'[w] = boards[w]]_vars

\* C18: whatever was toggled and validated, an error recorded for the candidate is
\* the reason with which isValidSchedule rejects the candidate's selection as it
\* is now, and a status "Listo para programar" comes with a selection that has no
\* Monday and no two dates one day apart.
C18_FeedbackAgreesWithSelection ==
    LET sel == SelectionOf(scheduleByCandidate, SchedCid)
        err == ErrorOf(scheduleErrors, SchedCid)
    IN  /\ err # "" => isValidSchedule(sel) = [ok |-> FALSE, reason |-> err]
        /\ status.message = <<"Listo para programar">> =>
              ~AnyMonday(sel) /\ ~AnyOneDayApart(sel)

====
